---- MODULE Spec2Model ----
(***************************************************************************)
(* The concurrent Mandelbrot raster engine of src/main.go (the second      *)
(* program of the file, lines 230-510: the one with the byte framebuffer,  *)
(* ForceRender and the updateTexture flag).                                *)
(*                                                                         *)
(* Goroutines: main (the run loop), imageWriter (one), one                 *)
(* mandelbrotWorker per pixel per pass, one anonymous wg.Wait goroutine    *)
(* per pass.  Shared state: settings (through the *Settings pointer),      *)
(* mi.Pixels, the unbuffered channel mi.Jobs, one WaitGroup per pass.      *)
(*                                                                         *)
(* Numbers.  float64 values are modelled in fixed point, in hundredths     *)
(* (Unit = 100): Min = -2.84 is -284, a pan step 0.05 is 5.  Division      *)
(* rounds down.  TLC's integers are 32 bits wide, so the magnitude of the  *)
(* iterated point is capped (Huge); float64 has no such cap but goes to    *)
(* +-Inf and then NaN, after which `x+y > 2` is false for ever.  Where the *)
(* rounding of float64 itself matters (the zoom keys), Min and Max are     *)
(* kept bit-exact beside settings, in f64.                                 *)
(*                                                                         *)
(* Specifications.  Spec: the whole program.  SpecLoop: the run loop       *)
(* alone.  SpecKeys: the event loop alone on a long queue of events.       *)
(* SpecFloat: the same with Min and Max as float64 values.  SpecPass: one  *)
(* pass without events; SpecPassFair: the same under fair scheduling of    *)
(* the goroutines.  SpecIdem: two passes around a pan key and its          *)
(* opposite.  SpecColour: the colouring of one point on given inputs.      *)
(***************************************************************************)
EXTENDS Integers, Sequences, FiniteSets, TLC

\* The pixel grid.  The source fixes it at 800 x 800 (lines 402-403); the
\* model keeps the row-major layout and scales the grid down.
Width == 2
Height == 1
\* Input events handled in one run of the run loop.
MaxEvents == 1
\* Render passes (calls of ForceRender) in one run.
MaxPasses == 2
\* Key events in one run of the key-stream specification SpecKeys.
MaxKeys == 24
\* Zoom steps either way from the default that the evaluations of SpecColour
\* take their MaxIterations from.
MaxZoom == 41

Unit == 10 * 10
Huge == 400 * Unit
NaN == -(2^30)

Coords == {<<x, y>> : x \in 0..(Width - 1), y \in 0..(Height - 1)}
Passes == 1..MaxPasses
WorkerIds == {<<p, c[1], c[2]>> : p \in Passes, c \in Coords}
NBytes == Width * Height * 4

\* sdl key codes of the KeyboardEvent branch, the quit event, and any other
\* event (mouse, window, a key the program does not bind).
Events == {"K_LEFT", "K_RIGHT", "K_DOWN", "K_UP", "K_EQUALS", "K_MINUS",
           "K_q", "QuitEvent", "other"}

\* settings := Settings{...}: Min, Max, Center in hundredths.
DefaultSettings ==
    [Min |-> -284, Max |-> 200, MaxIterations |-> 200,
     CenterX |-> 50, CenterY |-> 0]

VARIABLES
    settings,       \* the Settings value main owns; workers read it by pointer
    running,        \* main's loop variable
    updateTexture,  \* main's dirty flag
    pc,             \* where main is
    Pixels,         \* mi.Pixels, a sequence of NBytes bytes (index idx+1)
    texture,        \* what the last texture.Update read from mi.Pixels
    workers,        \* one record per mandelbrotWorker goroutine
    wg,             \* the WaitGroup counter of each pass
    writer,         \* the imageWriter goroutine
    jobsClosed,     \* close(mi.Jobs) has run
    passes,         \* number of ForceRender calls so far
    nEvents,        \* number of events polled so far
    \* history variables: they record, and are never read by the program
    stamp,          \* per byte of Pixels: which pass wrote it, from which reads
    cfgAt,          \* the settings at each ForceRender call
    mutTicks,       \* run-loop ticks that saw a configuration mutation
    tickMut,        \* the current tick saw one
    idleTick,       \* some tick found updateTexture false
    sends,          \* per worker: its completed sends on mi.Jobs
    draws,          \* per pass and pixel: completed DrawPoint calls for it
    \* changed by SpecIdem, SpecFloat and SpecColour only
    after1,         \* Pixels and stamp as they were when pass 1 completed
    f64,            \* settings.Min and .Max as the float64 values they are
    probe           \* the locals of one evaluation of lines 371-385

vars == <<settings, running, updateTexture, pc, Pixels, texture, workers, wg,
          writer, jobsClosed, passes, nEvents, stamp, cfgAt,
          mutTicks, tickMut, idleTick, sends, draws, after1, f64, probe>>

\* The variables that only SpecIdem, SpecFloat and SpecColour change.
aux == <<after1, f64, probe>>

\* A step that leaves them alone.
Quiet == UNCHANGED aux

----------------------------------------------------------------------------
\* The escape-time evaluator (mandelbrotWorker, lines 345-385).

IsNaN(v) == v = NaN

\* mapToRange: (val-in_min)*(out_max-out_min)/(in_max-in_min) + out_min.
\* The input and the output range may be in different units; the quotient
\* is in the output's.  in_max = in_min happens at one call site only (the
\* level, with MaxIterations = 0), where val = 0: float64 gives 0/0 = NaN.
mapToRange(val, in_min, in_max, out_min, out_max) ==
    IF IsNaN(val) \/ in_max = in_min
    THEN NaN
    ELSE ((val - in_min) * (out_max - out_min)) \div (in_max - in_min) + out_min

Abs(v) == IF v < 0 THEN -v ELSE v

\* One trip round the loop of lines 359-369 from the locals l; iters and z
\* advance together, so one counter.  l.out is set once the loop is left.
\* A point beyond Huge, or NaN, never passes the test x+y > 2 again.
LoopTrip(l, x0, y0, MaxIterations) ==
    IF l.out
    THEN l
    ELSE IF l.iters >= MaxIterations
    THEN [l EXCEPT !.out = TRUE]
    ELSE IF IsNaN(l.x) \/ IsNaN(l.y) \/ Abs(l.x) > Huge \/ Abs(l.y) > Huge
    THEN [l EXCEPT !.iters = MaxIterations, !.out = TRUE]
    ELSE LET x1 == (l.x * l.x - l.y * l.y) \div Unit
             y1 == (2 * l.x * l.y) \div Unit
             xn == x1 + x0
             yn == y1 + y0
         IN  IF xn + yn > 2 * Unit
             THEN [l EXCEPT !.out = TRUE]
             ELSE [x |-> xn, y |-> yn, iters |-> l.iters + 1, out |-> FALSE]

\* n trips round the loop, by halves; the locals after the first half are
\* computed once, as the one element m of a set.
RECURSIVE LoopTrips(_, _, _, _, _)
LoopTrips(l, n, x0, y0, MaxIterations) ==
    IF n <= 0
    THEN l
    ELSE IF n = 1
    THEN LoopTrip(l, x0, y0, MaxIterations)
    ELSE CHOOSE r \in { IF m.out
                        THEN m
                        ELSE LoopTrips(m, n - (n \div 2), x0, y0, MaxIterations) :
                        m \in {LoopTrips(l, n \div 2, x0, y0, MaxIterations)} } : TRUE

\* The loop run to its end: the value of iters after it.
Iterate(x, y, x0, y0, iters, MaxIterations) ==
    LoopTrips([x |-> x, y |-> y, iters |-> iters, out |-> FALSE],
              (MaxIterations - iters) + 1, x0, y0, MaxIterations).iters

\* Integer square root by bisection: the largest r with r*r <= v.
RECURSIVE SqrtBetween(_, _, _)
SqrtBetween(v, lo, hi) ==
    IF lo >= hi
    THEN lo
    ELSE LET mid == (lo + hi + 1) \div 2
         IN  IF mid * mid <= v
             THEN SqrtBetween(v, mid, hi)
             ELSE SqrtBetween(v, lo, mid - 1)

\* math.Sqrt of a value in hundredths, in hundredths.
Sqrt(v) == SqrtBetween(v * Unit, 0, 2000)

\* uint8(f) of a float64: the integer part, 8 bits wide.
ToUint8(v) == v % 256

\* The values uint8(f) may have: the integer part if it fits; otherwise the
\* result of the conversion depends on the implementation (Go specification,
\* Conversions), so any value of the type.
Uint8Of(v) == IF v \in 0..255 THEN {v} ELSE 0..255

\* Line 371: the level of an iteration count.
RawLevel(iters, MaxIterations) ==
    mapToRange(iters * Unit, 0, MaxIterations * Unit, 0, 255 * Unit)

\* A level that is forced to 0 for an interior point only.
LevelNoFloor(iters, MaxIterations) ==
    IF iters = MaxIterations THEN 0 ELSE RawLevel(iters, MaxIterations)

\* Lines 371-374: the level, forced to 0 for an interior point or a low one.
Level(iters, MaxIterations) ==
    LET col == RawLevel(iters, MaxIterations)
    IN  IF iters = MaxIterations \/ (~IsNaN(col) /\ col < 20 * Unit)
        THEN 0
        ELSE col

\* Lines 376-378.  `255/2` is a division of integer constants in Go: 127.
Red(col) == mapToRange((col * col) \div Unit, 0, 255 * 255 * Unit, 0, 255)
Green(col) == mapToRange(col \div 2, 0, (255 \div 2) * Unit, 0, 255)
Blue(col) == mapToRange(Sqrt(col), 0, Sqrt(255 * Unit), 0, 255)

\* Lines 348-352: the starting point of pixel (i, j) under the values of
\* Min, Max and Center the worker read.
StartX(i, s) == mapToRange(i * Unit, 0, Width * Unit, s.Min, s.Max) - s.CenterX
StartY(j, s) == mapToRange(j * Unit, 0, Height * Unit, s.Min, s.Max) - s.CenterY

\* A worker that labels every point with column 0.
EmitFirstColumn(i, j, x0, y0, MaxIterations) ==
    LET iters == Iterate(x0, y0, x0, y0, 0, MaxIterations)
        col == Level(iters, MaxIterations)
    IN  [X |-> 0, Y |-> j,
         Red |-> ToUint8(Red(col)),
         Green |-> ToUint8(Green(col)),
         Blue |-> ToUint8(Blue(col))]

\* Lines 357-385: the point a worker emits from its starting point.
Emit(i, j, x0, y0, MaxIterations) ==
    LET iters == Iterate(x0, y0, x0, y0, 0, MaxIterations)
        col == Level(iters, MaxIterations)
    IN  [X |-> i, Y |-> j,
         Red |-> ToUint8(Red(col)),
         Green |-> ToUint8(Green(col)),
         Blue |-> ToUint8(Blue(col))]

\* evaluate(x, y, c): what a worker that reads one configuration c emits.
Evaluate(i, j, c) == Emit(i, j, StartX(i, c), StartY(j, c), c.MaxIterations)

----------------------------------------------------------------------------
\* Values of the records below before anything is stored in them.

ZeroCfg ==
    [Min |-> 0, Max |-> 0, MaxIterations |-> 0, CenterX |-> 0, CenterY |-> 0]
ZeroPoint == [X |-> 0, Y |-> 0, Red |-> 0, Green |-> 0, Blue |-> 0]
\* A stamp: the pass of the worker that produced a byte and the settings
\* values that worker read.  Pass 0: never written; pass -1: no worker.
NoTag == [pass |-> 0, cfg |-> ZeroCfg]
ClosedTag == [pass |-> -1, cfg |-> ZeroCfg]
NoWorker == [pc |-> "none", x0 |-> 0, y0 |-> 0, seen |-> ZeroCfg, outpt |-> ZeroPoint]
IdleWriter == [pc |-> "select", k |-> 0, pt |-> ZeroPoint, tag |-> NoTag]

\* imageWriter that has returned instead of looping.
AfterDrawReturn == [IdleWriter EXCEPT !.pc = "returned"]

\* imageWriter after mi.DrawPoint(pt) has returned: `for` (line 328) takes
\* it back to the select.
AfterDraw == IdleWriter

\* The process is running: main has not returned and no goroutine panicked.
Alive == pc \notin {"exited", "panic"}

\* make([]byte, int(width*height*4)) of NewMandelbrotImage.
MakePixels == [k \in 1..NBytes |-> 0]

\* MandelbrotImage.Init: for i = 0; i < Width*Height; i += 4, four zero stores.
InitPixels(px) ==
    [k \in 1..NBytes |->
        IF \E i \in 0..(Width * Height - 1) : i % 4 = 0 /\ (k - 1) \in i..(i + 3)
        THEN 0
        ELSE px[k]]

\* An index that leaves the pixel stride out of the column term.
PointIdxNoStride(point) == (point.Y * Width * 4) + point.X

\* MandelbrotImage.DrawPoint: the index of the pixel and its four bytes.
PointIdx(point) == (point.Y * Width * 4) + (point.X * 4)
PointByte(point, k) ==
    CASE k = 0 -> point.Red
      [] k = 1 -> point.Green
      [] k = 2 -> point.Blue
      [] OTHER -> 255

----------------------------------------------------------------------------
\* main's event switch (lines 452-493) on one event: the new values of
\* settings, updateTexture and running.

\* The switch with a K_MINUS branch that changes settings and leaves the flag.
HandleEventNoFlagOnZoomOut(ev, s, dirty, run) ==
    CASE ev = "QuitEvent" -> [settings |-> s, updateTexture |-> dirty, running |-> FALSE]
      [] ev = "K_q"     -> [settings |-> s, updateTexture |-> dirty, running |-> FALSE]
      [] ev = "K_LEFT"  -> [settings |-> [s EXCEPT !.CenterX = @ - 5],
                            updateTexture |-> TRUE, running |-> run]
      [] ev = "K_RIGHT" -> [settings |-> [s EXCEPT !.CenterX = @ + 5],
                            updateTexture |-> TRUE, running |-> run]
      [] ev = "K_DOWN"  -> [settings |-> [s EXCEPT !.CenterY = @ + 5],
                            updateTexture |-> TRUE, running |-> run]
      [] ev = "K_UP"    -> [settings |-> [s EXCEPT !.CenterY = @ - 5],
                            updateTexture |-> TRUE, running |-> run]
      [] ev = "K_EQUALS" -> [settings |-> [s EXCEPT !.Min = @ + 15, !.Max = @ - 10,
                                                    !.MaxIterations = @ + 5],
                             updateTexture |-> TRUE, running |-> run]
      [] ev = "K_MINUS" -> [settings |-> [s EXCEPT !.Min = @ - 15, !.Max = @ + 10,
                                                   !.MaxIterations = @ - 5],
                            updateTexture |-> dirty, running |-> run]
      [] OTHER -> [settings |-> s, updateTexture |-> dirty, running |-> run]

\* main's event switch (lines 452-493).
HandleEvent(ev, s, dirty, run) ==
    CASE ev = "QuitEvent" -> [settings |-> s, updateTexture |-> dirty, running |-> FALSE]
      [] ev = "K_q"     -> [settings |-> s, updateTexture |-> dirty, running |-> FALSE]
      [] ev = "K_LEFT"  -> [settings |-> [s EXCEPT !.CenterX = @ - 5],
                            updateTexture |-> TRUE, running |-> run]
      [] ev = "K_RIGHT" -> [settings |-> [s EXCEPT !.CenterX = @ + 5],
                            updateTexture |-> TRUE, running |-> run]
      [] ev = "K_DOWN"  -> [settings |-> [s EXCEPT !.CenterY = @ + 5],
                            updateTexture |-> TRUE, running |-> run]
      [] ev = "K_UP"    -> [settings |-> [s EXCEPT !.CenterY = @ - 5],
                            updateTexture |-> TRUE, running |-> run]
      [] ev = "K_EQUALS" -> [settings |-> [s EXCEPT !.Min = @ + 15, !.Max = @ - 10,
                                                    !.MaxIterations = @ + 5],
                             updateTexture |-> TRUE, running |-> run]
      [] ev = "K_MINUS" -> [settings |-> [s EXCEPT !.Min = @ - 15, !.Max = @ + 10,
                                                   !.MaxIterations = @ - 5],
                            updateTexture |-> TRUE, running |-> run]
      [] OTHER -> [settings |-> s, updateTexture |-> dirty, running |-> run]

\* A run loop that dispatches on every tick.
ShouldRenderAlways == TRUE

\* `if updateTexture` (line 499).
ShouldRender == updateTexture

----------------------------------------------------------------------------
\* settings.Min and settings.Max as the float64 values the program holds.
\* Every value they take is a whole multiple of 2^-57 (the literals -2.84,
\* 2.0, 0.15 and 0.1 are, sums of such values are, and rounding to 53 bits
\* only clears low bits), so a value is a sign and a magnitude in units of
\* 2^-57, the magnitude in two digits of base 2^30: hi * 2^30 + lo.

Base == 2^30

F64(neg, hi, lo) == [neg |-> neg, hi |-> hi, lo |-> lo]
IsZero(a) == a.hi = 0 /\ a.lo = 0
MagLess(a, b) == a.hi < b.hi \/ (a.hi = b.hi /\ a.lo < b.lo)

\* -a.
F64Neg(a) == IF IsZero(a) THEN a ELSE [a EXCEPT !.neg = ~@]

\* a + b as a real number, before rounding.
ExactSum(a, b) ==
    IF a.neg = b.neg
    THEN LET lo == a.lo + b.lo
         IN  F64(a.neg, a.hi + b.hi + (lo \div Base), lo % Base)
    ELSE LET big == IF MagLess(a, b) THEN b ELSE a
             small == IF MagLess(a, b) THEN a ELSE b
             lo == big.lo - small.lo
             hi == big.hi - small.hi
         IN  IF lo < 0
             THEN F64(big.neg, hi - 1, lo + Base)
             ELSE F64(big.neg /\ ~(hi = 0 /\ lo = 0), hi, lo)

\* The low bits of a magnitude that do not fit the 53 bits of a float64
\* significand: hi below 2^23 means at most 30 + 23 bits.
RECURSIVE DropBits(_, _)
DropBits(hi, d) == IF hi < 2^(23 + d) THEN d ELSE DropBits(hi, d + 1)

\* The unit in the last place of a, in units of 2^-57.
Ulp(a) == 2^DropBits(a.hi, 0)

\* Rounding to the nearest float64, ties to even (IEEE 754 default).
F64Round(a) ==
    LET q == Ulp(a)
        r == a.lo % q
        keep == a.lo - r
        up == (2 * r > q) \/ (2 * r = q /\ (keep \div q) % 2 = 1)
        lo == IF up THEN keep + q ELSE keep
    IN  F64(a.neg, a.hi + (lo \div Base), lo % Base)

\* The float64 operations + and - .
F64Add(a, b) == F64Round(ExactSum(a, b))
F64Sub(a, b) == F64Add(a, F64Neg(b))

\* The float64 literals of main: -2.84 = -0x1.6b851eb851eb8p+1, 2.0,
\* 0.15 = 0x1.3333333333333p-3 and 0.1 = 0x1.999999999999ap-4.
DefaultF64 == [Min |-> F64(TRUE, 381178347, 558345728), Max |-> F64(FALSE, 268435456, 0)]
Lit015 == F64(FALSE, 20132659, 214748364)
Lit010 == F64(FALSE, 13421772, 858993460)

\* main's event switch (lines 452-493) on Min and Max as float64 values.
F64Event(ev, f) ==
    CASE ev = "K_EQUALS" -> [Min |-> F64Add(f.Min, Lit015), Max |-> F64Sub(f.Max, Lit010)]
      [] ev = "K_MINUS"  -> [Min |-> F64Sub(f.Min, Lit015), Max |-> F64Add(f.Max, Lit010)]
      [] OTHER -> f

\* The locals of lines 371-385 before an evaluation.
NoProbe ==
    [kind |-> "none", iters |-> 0, MaxIterations |-> 0, level |-> 0, col |-> 0,
     red |-> 0, green |-> 0, blue |-> 0, outpt |-> ZeroPoint]

----------------------------------------------------------------------------
Init ==
    /\ settings = DefaultSettings
    /\ running = TRUE
    /\ updateTexture = FALSE
    /\ pc = "start"
    /\ Pixels = MakePixels
    /\ texture = MakePixels
    /\ workers = [w \in WorkerIds |-> NoWorker]
    /\ wg = [p \in Passes |-> 0]
    /\ writer = IdleWriter
    /\ jobsClosed = FALSE
    /\ passes = 0
    /\ nEvents = 0
    /\ stamp = [k \in 1..NBytes |-> NoTag]
    /\ cfgAt = [p \in Passes |-> ZeroCfg]
    /\ mutTicks = 0
    /\ tickMut = FALSE
    /\ idleTick = FALSE
    /\ sends = [w \in WorkerIds |-> 0]
    /\ draws = [w \in WorkerIds |-> 0]
    /\ after1 = [px |-> MakePixels, st |-> [k \in 1..NBytes |-> NoTag]]
    /\ f64 = DefaultF64
    /\ probe = NoProbe

\* MandelbrotImage.ForceRender: Width*Height times wg.Add(1) and
\* `go mandelbrotWorker`, then `go func() { wg.Wait() }()`; it returns
\* without waiting.  The WaitGroup is a local of the call: one per pass.
\* The goroutine that waits on it does nothing when Wait returns and tells
\* no one: it has no state here, and Wait can return whenever wg[p] = 0.
ForceRender ==
    /\ passes < MaxPasses
    /\ passes' = passes + 1
    /\ workers' = [w \in WorkerIds |->
                      IF w[1] = passes + 1
                      THEN [NoWorker EXCEPT !.pc = "map"]
                      ELSE workers[w]]
    /\ wg' = [wg EXCEPT ![passes + 1] = Width * Height]
    /\ cfgAt' = [cfgAt EXCEPT ![passes + 1] = settings]

\* Lines 445-446: mandelbrotImg.Init(); mandelbrotImg.ForceRender().
Start ==
    /\ pc = "start"
    /\ Pixels' = InitPixels(Pixels)
    /\ ForceRender
    /\ pc' = "poll"
    /\ UNCHANGED <<sends, draws, settings, running, updateTexture, texture, writer, jobsClosed,
                   nEvents, stamp, mutTicks, tickMut, idleTick>>

\* One turn of the event loop (line 451) with an event in the queue: the
\* switch of lines 452-493 on it.
Dispatch(ev) ==
    /\ pc = "poll"
    /\ LET r == HandleEvent(ev, settings, updateTexture, running)
           mutated == r.settings # settings
       IN  /\ settings' = r.settings
           /\ updateTexture' = r.updateTexture
           /\ running' = r.running
           /\ tickMut' = (tickMut \/ mutated)
           /\ mutTicks' = IF mutated /\ ~tickMut THEN mutTicks + 1 ELSE mutTicks
    /\ nEvents' = nEvents + 1
    /\ UNCHANGED <<sends, draws, pc, Pixels, texture, workers, wg, writer, jobsClosed,
                   passes, stamp, cfgAt, idleTick>>

PollEvent(ev) == nEvents < MaxEvents /\ Dispatch(ev)

\* The same, in a run that only queues events (SpecKeys).
KeyStream(ev) == nEvents < MaxKeys /\ Dispatch(ev)

\* sdl.PollEvent returns nil: the event loop ends.
PollDone ==
    /\ pc = "poll"
    /\ pc' = "update"
    /\ UNCHANGED <<sends, draws, settings, running, updateTexture, Pixels, texture, workers, wg,
                   writer, jobsClosed, passes, nEvents, stamp, 
                   cfgAt, mutTicks, tickMut, idleTick>>

\* texture.Update(nil, mandelbrotImg.Pixels[:], 3200) (line 496): main reads
\* the whole of Pixels, without taking mi.mu.  The read is taken in one
\* step, at any point between two byte stores of the writer.
TextureUpdate ==
    /\ pc = "update"
    /\ texture' = Pixels
    /\ pc' = "test"
    /\ UNCHANGED <<sends, draws, settings, running, updateTexture, Pixels, workers, wg, 
                   writer, jobsClosed, passes, nEvents, stamp, cfgAt, mutTicks,
                   tickMut, idleTick>>

\* Lines 504-508 and the loop test of line 450: the end of a tick.
EndOfTick == IF running THEN "poll" ELSE "close"

\* Lines 499-500 with the flag set: ForceRender is called.
RenderDirty ==
    /\ pc = "test"
    /\ ShouldRender
    /\ ForceRender
    /\ pc' = "clear"
    /\ UNCHANGED <<sends, draws, settings, running, updateTexture, Pixels, texture, writer,
                   jobsClosed, nEvents, stamp, mutTicks, tickMut, idleTick>>

\* Line 501, then the end of the tick.
ClearFlag ==
    /\ pc = "clear"
    /\ updateTexture' = FALSE
    /\ pc' = EndOfTick
    /\ tickMut' = FALSE
    /\ UNCHANGED <<sends, draws, settings, running, Pixels, texture, workers, wg, writer,
                   jobsClosed, passes, nEvents, stamp, cfgAt, mutTicks,
                   idleTick>>

\* Line 499 with the flag clear: nothing is dispatched; the end of the tick.
SkipRender ==
    /\ pc = "test"
    /\ ~ShouldRender
    /\ pc' = EndOfTick
    /\ tickMut' = FALSE
    /\ idleTick' = TRUE
    /\ UNCHANGED <<sends, draws, settings, running, updateTexture, Pixels, texture, workers, wg,
                   writer, jobsClosed, passes, nEvents, stamp, 
                   cfgAt, mutTicks>>

\* The deferred mandelbrotImg.Close() (lines 441, 319-321): close(mi.Jobs).
Close ==
    /\ pc = "close"
    /\ jobsClosed' = TRUE
    /\ pc' = "deferred"
    /\ UNCHANGED <<sends, draws, settings, running, updateTexture, Pixels, texture, workers, wg,
                   writer, passes, nEvents, stamp, cfgAt,
                   mutTicks, tickMut, idleTick>>

\* The other deferred calls have run and main returns: the process ends.
Exit ==
    /\ pc = "deferred"
    /\ pc' = "exited"
    /\ UNCHANGED <<sends, draws, settings, running, updateTexture, Pixels, texture, workers, wg,
                   writer, jobsClosed, passes, nEvents, stamp, 
                   cfgAt, mutTicks, tickMut, idleTick>>

----------------------------------------------------------------------------
\* The goroutines.  What main owns and no goroutine writes:
mainVars == <<settings, running, updateTexture, nEvents, passes, cfgAt, texture,
              mutTicks, tickMut, idleTick>>

\* mandelbrotWorker, lines 345-355: x, y, x0, y0 from settings.Min, .Max,
\* .Center (Width and Height never change).
WorkerMap(w) ==
    /\ Alive
    /\ workers[w].pc = "map"
    /\ workers' = [workers EXCEPT ![w] =
          [@ EXCEPT !.pc = "iter",
                    !.x0 = StartX(w[2], settings),
                    !.y0 = StartY(w[3], settings),
                    !.seen = [settings EXCEPT !.MaxIterations = 0]]]
    /\ UNCHANGED <<sends, draws, mainVars, pc, Pixels, wg, writer, jobsClosed, stamp>>

\* mandelbrotWorker, lines 357-385: the loop, the level and the channels,
\* from settings.MaxIterations as it is now.
WorkerIter(w) ==
    /\ Alive
    /\ workers[w].pc = "iter"
    /\ workers' = [workers EXCEPT ![w] =
          [@ EXCEPT !.pc = "send",
                    !.outpt = Emit(w[2], w[3], workers[w].x0, workers[w].y0,
                                   settings.MaxIterations),
                    !.seen = [@ EXCEPT !.MaxIterations = settings.MaxIterations]]]
    /\ UNCHANGED <<sends, draws, mainVars, pc, Pixels, wg, writer, jobsClosed, stamp>>

\* `jobs <- outpt` (line 386) meets `case pt := <-jobs` (line 330): the
\* channel is unbuffered, so the send completes as imageWriter receives.
WorkerSend(w) ==
    /\ Alive
    /\ ~jobsClosed
    /\ workers[w].pc = "send"
    /\ writer.pc = "select"
    /\ writer' = [pc |-> "draw", k |-> 0, pt |-> workers[w].outpt,
                  tag |-> [pass |-> w[1], cfg |-> workers[w].seen]]
    /\ workers' = [workers EXCEPT ![w] = [NoWorker EXCEPT !.pc = "sent"]]
    /\ sends' = [sends EXCEPT ![w] = @ + 1]
    /\ UNCHANGED <<draws, mainVars, pc, Pixels, wg, jobsClosed, stamp>>

\* `jobs <- outpt` on the closed channel: the goroutine panics, and with it
\* the process.
WorkerSendClosed(w) ==
    /\ Alive
    /\ jobsClosed
    /\ workers[w].pc = "send"
    /\ pc' = "panic"
    /\ UNCHANGED <<sends, draws, mainVars, Pixels, workers, wg, writer, jobsClosed, stamp>>

\* The deferred wg.Done() (line 343), as the worker returns.
WorkerDone(w) ==
    /\ Alive
    /\ workers[w].pc = "sent"
    /\ workers' = [workers EXCEPT ![w].pc = "done"]
    /\ wg' = [wg EXCEPT ![w[1]] = @ - 1]
    /\ UNCHANGED <<sends, draws, mainVars, pc, Pixels, writer, jobsClosed, stamp>>

\* imageWriter's receive on the closed channel: the zero Point, at once.
\* (The `default` branch of its select changes nothing and is no action.)
WriterRecvClosed ==
    /\ Alive
    /\ jobsClosed
    /\ writer.pc = "select"
    /\ writer' = [pc |-> "draw", k |-> 0, pt |-> ZeroPoint, tag |-> ClosedTag]
    /\ UNCHANGED <<sends, draws, mainVars, pc, Pixels, workers, wg, jobsClosed, stamp>>

\* mi.DrawPoint(pt) in imageWriter: one of the four byte stores of lines
\* 292-295, under mi.mu (which only DrawPoint ever takes); after the
\* fourth, the unlock and the return to the select.
DrawStore ==
    /\ Alive
    /\ writer.pc = "draw"
    /\ LET at == PointIdx(writer.pt) + writer.k + 1
       IN  /\ Pixels' = [Pixels EXCEPT ![at] = PointByte(writer.pt, writer.k)]
           /\ stamp' = [stamp EXCEPT ![at] = writer.tag]
    /\ writer' = IF writer.k = 3 THEN AfterDraw ELSE [writer EXCEPT !.k = @ + 1]
    /\ draws' = IF writer.k = 3 /\ writer.tag.pass \in Passes
                THEN [draws EXCEPT ![<<writer.tag.pass, writer.pt.X, writer.pt.Y>>] = @ + 1]
                ELSE draws
    /\ UNCHANGED <<sends, mainVars, pc, workers, wg, jobsClosed>>

----------------------------------------------------------------------------
\* The event loop on a long queue of key events, with Min and Max kept as
\* float64 values beside settings.
FloatKeys == {"K_EQUALS", "K_MINUS", "K_LEFT", "K_UP"}

FloatKey(ev) ==
    /\ KeyStream(ev)
    /\ f64' = F64Event(ev, f64)
    /\ UNCHANGED <<after1, probe>>

FloatNext ==
    \/ Start /\ Quiet
    \/ \E ev \in FloatKeys : FloatKey(ev)

SpecFloat == Init /\ [][FloatNext]_vars

----------------------------------------------------------------------------
\* The colouring of one point alone (lines 371-385), on given inputs: one
\* evaluation in a behaviour.

\* The values of MaxIterations up to MaxZoom zoom steps from the default,
\* and the values iters can have after the loop for one of them.
ProbeIterations ==
    {DefaultSettings.MaxIterations + 5 * z : z \in (-MaxZoom)..MaxZoom}
ProbeIters(MaxIterations) == 0..(IF MaxIterations > 0 THEN MaxIterations ELSE 0)

\* Lines 371-385 on the iteration count iters under MaxIterations.
ProbeWorker(iters, MaxIterations) ==
    LET col == Level(iters, MaxIterations)
    IN  /\ probe.kind = "none"
        /\ \E r \in Uint8Of(Red(col)), g \in Uint8Of(Green(col)), b \in Uint8Of(Blue(col)) :
               probe' = [kind |-> "worker", iters |-> iters,
                         MaxIterations |-> MaxIterations,
                         level |-> RawLevel(iters, MaxIterations), col |-> col,
                         red |-> Red(col), green |-> Green(col), blue |-> Blue(col),
                         outpt |-> [ZeroPoint EXCEPT !.Red = r, !.Green = g, !.Blue = b]]
        /\ UNCHANGED <<sends, draws, mainVars, pc, Pixels, workers, wg, writer,
                       jobsClosed, stamp, after1, f64>>

\* Lines 376-385 on a level n (a whole number of the 0..255 scale).
ProbeRemap(n) ==
    LET col == n * Unit
    IN  /\ probe.kind = "none"
        /\ \E r \in Uint8Of(Red(col)), g \in Uint8Of(Green(col)), b \in Uint8Of(Blue(col)) :
               probe' = [kind |-> "remap", iters |-> 0, MaxIterations |-> 0,
                         level |-> col, col |-> col,
                         red |-> Red(col), green |-> Green(col), blue |-> Blue(col),
                         outpt |-> [ZeroPoint EXCEPT !.Red = r, !.Green = g, !.Blue = b]]
        /\ UNCHANGED <<sends, draws, mainVars, pc, Pixels, workers, wg, writer,
                       jobsClosed, stamp, after1, f64>>

ColourNext ==
    \/ \E m \in ProbeIterations : \E i \in ProbeIters(m) : ProbeWorker(i, m)
    \/ \E n \in 0..255 : ProbeRemap(n)

SpecColour == Init /\ [][ColourNext]_vars

----------------------------------------------------------------------------
MainNext ==
    \/ Start /\ Quiet
    \/ \E ev \in Events : PollEvent(ev) /\ Quiet
    \/ PollDone /\ Quiet
    \/ TextureUpdate /\ Quiet
    \/ RenderDirty /\ Quiet
    \/ ClearFlag /\ Quiet
    \/ SkipRender /\ Quiet
    \/ Close /\ Quiet
    \/ Exit /\ Quiet

GoNext ==
    \/ \E w \in WorkerIds : WorkerMap(w) /\ Quiet
    \/ \E w \in WorkerIds : WorkerIter(w) /\ Quiet
    \/ \E w \in WorkerIds : WorkerSend(w) /\ Quiet
    \/ \E w \in WorkerIds : WorkerSendClosed(w) /\ Quiet
    \/ \E w \in WorkerIds : WorkerDone(w) /\ Quiet
    \/ WriterRecvClosed /\ Quiet
    \/ DrawStore /\ Quiet

Next == MainNext \/ GoNext

Spec == Init /\ [][Next]_vars

\* The run loop alone: the goroutines are spawned and not scheduled.  They
\* write none of settings, running, updateTexture, pc, passes, cfgAt and the
\* tick counters, and main never waits for them, so main's behaviours under
\* Spec and under SpecLoop are the same.
SpecLoop == Init /\ [][MainNext]_vars

\* The event loop alone, on a long queue of events.
KeysNext ==
    \/ Start /\ Quiet
    \/ \E ev \in Events : KeyStream(ev) /\ Quiet

SpecKeys == Init /\ [][KeysNext]_vars

\* One pass while the window receives no event: main starts the initial pass
\* and then ticks (poll, texture.Update, no dispatch) while the workers and
\* imageWriter run.
PassNext ==
    \/ Start /\ Quiet
    \/ PollDone /\ Quiet
    \/ TextureUpdate /\ Quiet
    \/ SkipRender /\ Quiet
    \/ \E w \in WorkerIds : WorkerMap(w) /\ Quiet
    \/ \E w \in WorkerIds : WorkerIter(w) /\ Quiet
    \/ \E w \in WorkerIds : WorkerSend(w) /\ Quiet
    \/ \E w \in WorkerIds : WorkerDone(w) /\ Quiet
    \/ DrawStore /\ Quiet

SpecPass == Init /\ [][PassNext]_vars

\* A step of some worker or of imageWriter.
PassGo ==
    \/ \E w \in WorkerIds : WorkerMap(w)
    \/ \E w \in WorkerIds : WorkerIter(w)
    \/ \E w \in WorkerIds : WorkerSend(w)
    \/ \E w \in WorkerIds : WorkerDone(w)
    \/ DrawStore

\* SpecPass under the scheduling Go gives the goroutines: the scheduler is
\* preemptive and keeps running runnable goroutines, whatever main does, so
\* as long as some worker or imageWriter can take a step, one of them does.
\* (A worker parked on the unbuffered channel can step once imageWriter is
\* back at its select; imageWriter inside DrawPoint can always step.)
PassFairness == WF_vars(PassGo /\ Quiet)

SpecPassFair == SpecPass /\ PassFairness

----------------------------------------------------------------------------
\* What is outstanding of a pass.

\* A worker of pass p has not returned yet.
Outstanding(p) ==
    \E w \in WorkerIds : w[1] = p /\ workers[w].pc \in {"map", "iter", "send", "sent"}

\* imageWriter holds a point of pass p it has not finished storing.
PendingWrite(p) == writer.pc = "draw" /\ writer.tag.pass = p

InFlight(p) == Outstanding(p) \/ PendingWrite(p)
PassInFlight == \E p \in 1..passes : InFlight(p)

\* A worker that has reads of settings ahead of it.
Reading(w) == workers[w].pc \in {"map", "iter"}

\* The bytes of pixel (x, y) in Pixels (as indices of the sequence).
PixelBytes(x, y) == LET idx == (y * Width * 4) + (x * 4) IN (idx + 1)..(idx + 4)

----------------------------------------------------------------------------
\* Passes at one configuration: the run loop and the goroutines while the
\* window receives a pan key and then the opposite one, at any time, and is
\* not closed.  after1 keeps the framebuffer, and where each of its bytes
\* came from, as they are at the step that leaves nothing of pass 1
\* outstanding.
PanQueue == <<"K_LEFT", "K_RIGHT">>

PanEvent == nEvents < Len(PanQueue) /\ Dispatch(PanQueue[nEvents + 1])

PassDone ==
    /\ after1' = IF InFlight(1) /\ ~InFlight(1)'
                 THEN [px |-> Pixels', st |-> stamp']
                 ELSE after1
    /\ UNCHANGED <<f64, probe>>

IdemNext ==
    \/ Start /\ PassDone
    \/ PanEvent /\ PassDone
    \/ PollDone /\ PassDone
    \/ TextureUpdate /\ PassDone
    \/ RenderDirty /\ PassDone
    \/ ClearFlag /\ PassDone
    \/ SkipRender /\ PassDone
    \/ \E w \in WorkerIds : WorkerMap(w) /\ PassDone
    \/ \E w \in WorkerIds : WorkerIter(w) /\ PassDone
    \/ \E w \in WorkerIds : WorkerSend(w) /\ PassDone
    \/ \E w \in WorkerIds : WorkerDone(w) /\ PassDone
    \/ DrawStore /\ PassDone

SpecIdem == Init /\ [][IdemNext]_vars

----------------------------------------------------------------------------
\* The claims.

\* C1: no torn frame is presented.  Whenever the run loop is at
\* texture.Update (which copies Pixels as it is in that state), no render
\* pass is in flight, and all bytes of Pixels were written by one and the
\* same pass (or none was written yet).
C1_NoTornFrame ==
    pc = "update" =>
        /\ ~PassInFlight
        /\ \A k1, k2 \in 1..NBytes : stamp[k1].pass = stamp[k2].pass

\* C2: passes are strictly serialized.  No step that calls ForceRender (the
\* steps that count a pass) is taken while a worker, or a pending write, of
\* an earlier pass is outstanding.
C2_PassesSerialized == [][passes' # passes => ~PassInFlight]_vars

\* C3: the input handler never writes settings while a worker of an
\* in-flight pass still has reads of settings ahead of it.
C3_NoWriteWhileRead ==
    [][settings' # settings => ~(\E w \in WorkerIds : Reading(w))]_vars

\* C4: once the latest pass has fully completed, every pixel holds
\* evaluate(x, y, c) for the settings c at that pass's ForceRender call, and
\* was computed by a worker of that pass from reads of exactly c.
C4_PassResult ==
    (passes >= 1 /\ ~InFlight(passes)) =>
        \A c \in Coords :
            \A k \in 0..3 :
                LET at == PointIdx([X |-> c[1], Y |-> c[2]]) + k + 1
                IN  /\ Pixels[at] = PointByte(Evaluate(c[1], c[2], cfgAt[passes]), k)
                    /\ stamp[at] = [pass |-> passes, cfg |-> cfgAt[passes]]

\* C5: full coverage at the barrier.  When the WaitGroup of a pass is at
\* zero, DrawPoint has completed for every coordinate of that pass: every
\* worker has handed over its point and imageWriter holds none of them.
C5_CoverageAtBarrier ==
    \A p \in 1..passes :
        wg[p] = 0 =>
            /\ \A w \in WorkerIds : w[1] = p => workers[w].pc = "done"
            /\ ~PendingWrite(p)

\* C6: the dirty flag is cleared only after the pass it triggered has
\* completed.  In every step that resets updateTexture, the latest pass has
\* nothing outstanding.
C6_ClearedAfterPass ==
    [][(updateTexture /\ ~updateTexture') => ~InFlight(passes)]_vars

\* C7: every configuration mutation sets the recompute trigger.  Where the
\* run loop tests updateTexture, settings that differ from the settings at
\* the latest ForceRender call come with updateTexture set.
C7_MutationSetsTrigger ==
    (pc = "test" /\ passes >= 1 /\ settings # cfgAt[passes]) => updateTexture

C7_Witness == pc = "test" /\ passes >= 1 /\ settings # cfgAt[passes] /\ updateTexture

\* C8: a tick on which the flag is not set dispatches nothing.  The passes
\* dispatched never exceed one (the call before the loop) plus the ticks
\* that saw a configuration mutation.
C8_NoIdleDispatch == passes <= 1 + mutTicks

C8_Witness == idleTick /\ passes = 2 /\ mutTicks = 1

\* C9: after any sequence of key events from the default settings,
\* Max > Min and MaxIterations >= 1.
C9_ConfigValid == settings.Max > settings.Min /\ settings.MaxIterations >= 1

\* C10: a pixel is the unit of atomicity.  Whenever the run loop is at
\* texture.Update, the four bytes of every pixel of Pixels come from one
\* DrawPoint call (or from none).
C10_PixelAtomic ==
    pc = "update" =>
        \A c \in Coords :
            \A k1, k2 \in PixelBytes(c[1], c[2]) : stamp[k1] = stamp[k2]

\* C11: every pass evaluates, sends and draws each coordinate exactly once:
\* no worker sends twice and no pixel of a pass is drawn twice, and once a
\* dispatched pass has nothing outstanding each of its Width*Height workers
\* has sent once and each of its pixels has been drawn once.
C11_OncePerCoordinate ==
    \A w \in WorkerIds :
        /\ sends[w] <= 1
        /\ draws[w] <= 1
        /\ (w[1] <= passes /\ ~InFlight(w[1])) => (sends[w] = 1 /\ draws[w] = 1)

C11_Witness ==
    /\ passes = 1
    /\ ~InFlight(1)
    /\ \A c \in Coords : draws[<<1, c[1], c[2]>>] = 1

C17_PassCompletes ==
    /\ \A w \in WorkerIds :
           (workers[w].pc # "none") ~> (workers[w].pc = "done" /\ sends[w] = 1)
    /\ \A p \in Passes : (passes >= p) ~> (wg[p] = 0 /\ ~InFlight(p))

C17_Witness ==
    /\ passes = 1
    /\ wg[1] = 0
    /\ \A c \in Coords : workers[<<1, c[1], c[2]>>].pc = "done"
    /\ writer.pc = "select"

\* C18: mi.Jobs is never closed while a worker may still send: once the
\* channel is closed no worker is before or at its send, and no send on the
\* closed channel (a panic) happens.
C18_NoSendAfterClose ==
    /\ jobsClosed => \A w \in WorkerIds : workers[w].pc \notin {"map", "iter", "send"}
    /\ pc # "panic"

\* C19: whenever imageWriter is in DrawPoint, the point it draws is one that
\* a worker of a dispatched pass sent, never the zero Point a receive on the
\* closed channel yields.
C19_OnlySentPoints ==
    writer.pc = "draw" => writer.tag.pass \in 1..passes

\* C14: an evaluation whose iteration count equals MaxIterations, or whose
\* level map(iters, 0, MaxIterations, 0, 255) is below 20, emits a point
\* with Red = Green = Blue = 0.
C14_ColourFloor ==
    (/\ probe.kind = "worker"
     /\ \/ probe.iters = probe.MaxIterations
        \/ (~IsNaN(probe.level) /\ probe.level < 20 * Unit)) =>
        (probe.outpt.Red = 0 /\ probe.outpt.Green = 0 /\ probe.outpt.Blue = 0)

C14_Witness ==
    /\ probe.kind = "worker"
    /\ probe.iters < probe.MaxIterations
    /\ probe.level > 0
    /\ probe.level < 20 * Unit
    /\ probe.outpt.Red = 0 /\ probe.outpt.Green = 0 /\ probe.outpt.Blue = 0

\* C15: the three remaps send level 255 to (255, 255, 255) and level 0 to
\* (0, 0, 0), and the green remap never yields a value outside 0..255
\* before the conversion to uint8.
C15_ChannelRemap ==
    probe.kind = "remap" =>
        /\ probe.col = 255 * Unit =>
               (probe.outpt.Red = 255 /\ probe.outpt.Green = 255 /\ probe.outpt.Blue = 255)
        /\ probe.col = 0 =>
               (probe.outpt.Red = 0 /\ probe.outpt.Green = 0 /\ probe.outpt.Blue = 0)
        /\ probe.green \in 0..255

\* C13: zoom-out is the exact inverse of zoom-in: from every configuration a
\* zoom-in followed by a zoom-out, or the reverse, restores Min, Max and
\* MaxIterations to their prior values and leaves the center unchanged; a
\* pan leaves Min, Max and MaxIterations unchanged.
C13_ExactInverse ==
    LET After(ev, s) == HandleEvent(ev, s, updateTexture, running).settings
    IN  /\ F64Event("K_MINUS", F64Event("K_EQUALS", f64)) = f64
        /\ F64Event("K_EQUALS", F64Event("K_MINUS", f64)) = f64
        /\ After("K_MINUS", After("K_EQUALS", settings)).MaxIterations
               = settings.MaxIterations
        /\ After("K_EQUALS", After("K_MINUS", settings)).MaxIterations
               = settings.MaxIterations
        /\ \A ev \in {"K_EQUALS", "K_MINUS"} :
               /\ After(ev, settings).CenterX = settings.CenterX
               /\ After(ev, settings).CenterY = settings.CenterY
        /\ \A ev \in {"K_LEFT", "K_RIGHT", "K_DOWN", "K_UP"} :
               /\ F64Event(ev, f64) = f64
               /\ After(ev, settings).Min = settings.Min
               /\ After(ev, settings).Max = settings.Max
               /\ After(ev, settings).MaxIterations = settings.MaxIterations

\* C12: two passes dispatched with the same configuration, both completed,
\* leave the same framebuffer: after the second the bytes are those that
\* were there after the first, computed from the same configuration.
C12_Idempotent ==
    (/\ passes = 2
     /\ cfgAt[1] = cfgAt[2]
     /\ ~InFlight(1)
     /\ ~InFlight(2)) =>
        /\ Pixels = after1.px
        /\ \A k \in 1..NBytes : stamp[k].cfg = after1.st[k].cfg

====
